---- MODULE Spec2Model ----
(***************************************************************************)
(* Model of dict_script.py: extract_glossary_terms and                      *)
(* replace_terms_with_gls.  Texts are sequences of one-character strings    *)
(* and every offset is a Python (0-based) offset into such a sequence.      *)
(***************************************************************************)
EXTENDS Integers, Sequences, FiniteSets, TLC

VARIABLES tex_text, glossary, pc, run, glossary_defs, gls_spans,
          replacements, idx, updated_text, occupied, changes,
          applied,   \* the replacements spliced in so far, in that order
          history    \* (input, output, changes) of every call that returned

vars == <<tex_text, glossary, pc, run, glossary_defs, gls_spans,
          replacements, idx, updated_text, occupied, changes, applied,
          history>>

(***************************************************************************)
(* Bounds of the exploration.                                               *)
(***************************************************************************)
MaxPieces == 3
MaxRuns == 2
MaxRerunLen == 130   \* longest output that is fed to a further call

(***************************************************************************)
(* Characters as the re module classifies them.                             *)
(***************************************************************************)
LowerSeq == <<"a","b","c","d","e","f","g","h","i","j","k","l","m",
              "n","o","p","q","r","s","t","u","v","w","x","y","z">>
UpperSeq == <<"A","B","C","D","E","F","G","H","I","J","K","L","M",
              "N","O","P","Q","R","S","T","U","V","W","X","Y","Z">>
Digits == {"0","1","2","3","4","5","6","7","8","9"}
Range(f) == {f[k] : k \in DOMAIN f}
WordChars == Range(LowerSeq) \cup Range(UpperSeq) \cup Digits \cup {"_"}
Whitespace == {" ", "\n", "\t", "\r", "\f"}
SpecialChars == {"(", ")", "[", "]", "{", "}", "?", "*", "+", "-", "|",
                 "^", "$", "\\", ".", "&", "~", "#"} \cup Whitespace
FoldCase(c) ==
    IF \E k \in 1..26 : UpperSeq[k] = c
    THEN LowerSeq[CHOOSE k \in 1..26 : UpperSeq[k] = c]
    ELSE c

(***************************************************************************)
(* Python sequence primitives.                                              *)
(***************************************************************************)
Min(S) == CHOOSE m \in S : \A n \in S : m <= n
Clamp(n, t) == IF n < 0 THEN 0 ELSE IF n > Len(t) THEN Len(t) ELSE n
At(t, i) == t[i + 1]
Slice(t, a, b) ==
    IF Clamp(a, t) >= Clamp(b, t) THEN << >>
    ELSE SubSeq(t, Clamp(a, t) + 1, Clamp(b, t))
StartsAt(t, i, lit) ==
    /\ i + Len(lit) <= Len(t)
    /\ SubSeq(t, i + 1, i + Len(lit)) = lit
SkipWs(t, i) ==
    Min({j \in i..Len(t) :
            /\ \A k \in i..(j - 1) : At(t, k) \in Whitespace
            /\ j = Len(t) \/ At(t, j) \notin Whitespace})
\* ''.join(parts), and list concatenation for a list of lists
RECURSIVE Concat(_)
Concat(parts) ==
    IF parts = << >> THEN << >> ELSE Head(parts) \o Concat(Tail(parts))
RECURSIVE LStrip(_)
LStrip(s) ==
    IF s # << >> /\ Head(s) \in Whitespace THEN LStrip(Tail(s)) ELSE s
RECURSIVE RStrip(_)
RStrip(s) ==
    IF s # << >> /\ s[Len(s)] \in Whitespace
    THEN RStrip(SubSeq(s, 1, Len(s) - 1)) ELSE s
Strip(s) == RStrip(LStrip(s))

(***************************************************************************)
(* The literal pieces of the regular expressions.                           *)
(***************************************************************************)
NewGlossaryEntry ==
    <<"\\","n","e","w","g","l","o","s","s","a","r","y","e","n","t","r","y">>
NewGlossaryEntryOpen == NewGlossaryEntry \o <<"{">>
GlsOpen == <<"\\","g","l","s","{">>
NameField == <<"n","a","m","e","=","{">>

(***************************************************************************)
(* inside_any(index, spans)                                                 *)
(***************************************************************************)
inside_any(index, spans) ==
    \E k \in DOMAIN spans : spans[k][1] <= index /\ index < spans[k][2]

(***************************************************************************)
(* r'\\newglossaryentry\{(.*?)\}\s*\{.*?name=\{(.*?)\}' with re.DOTALL:     *)
(* the lazy groups end at the first position from which the rest matches.   *)
(***************************************************************************)
NameEnds(t, m) == {n \in (m + Len(NameField))..(Len(t) - 1) : At(t, n) = "}"}
NameStarts(t, q) ==
    {m \in (q + 1)..(Len(t) - 1) :
        StartsAt(t, m, NameField) /\ NameEnds(t, m) # {}}
EntryKeyEnds(t, p) ==
    {k \in (p + Len(NewGlossaryEntryOpen))..(Len(t) - 1) :
        /\ At(t, k) = "}"
        /\ SkipWs(t, k + 1) < Len(t)
        /\ At(t, SkipWs(t, k + 1)) = "{"
        /\ NameStarts(t, SkipWs(t, k + 1)) # {}}
EntryMatches(t, p) ==
    StartsAt(t, p, NewGlossaryEntryOpen) /\ EntryKeyEnds(t, p) # {}
EntryMatch(t, p) ==
    LET k == Min(EntryKeyEnds(t, p))
        m == Min(NameStarts(t, SkipWs(t, k + 1)))
        n == Min(NameEnds(t, m))
    IN  [start |-> p, end |-> n + 1,
         term |-> Slice(t, p + Len(NewGlossaryEntryOpen), k),
         name |-> Slice(t, m + Len(NameField), n)]
RECURSIVE FindEntries(_, _)
FindEntries(t, pos) ==
    LET starts == {p \in pos..(Len(t) - 1) : EntryMatches(t, p)}
    IN  IF starts = {} THEN << >>
        ELSE <<EntryMatch(t, Min(starts))>>
                 \o FindEntries(t, EntryMatch(t, Min(starts)).end)

(***************************************************************************)
(* A dict as the sequence of its items in insertion order; assigning to a   *)
(* key that is present keeps its place and overwrites its value.            *)
(***************************************************************************)
DictSet(d, key, value) ==
    IF \E k \in DOMAIN d : d[k][1] = key
    THEN [k \in DOMAIN d |-> IF d[k][1] = key THEN <<key, value>> ELSE d[k]]
    ELSE Append(d, <<key, value>>)
DictHas(d, key) == \E k \in DOMAIN d : d[k][1] = key
DictGet(d, key) == d[CHOOSE k \in DOMAIN d : d[k][1] = key][2]
RECURSIVE DictOf(_, _)
DictOf(items, d) ==
    IF items = << >> THEN d
    ELSE DictOf(Tail(items), DictSet(d, Head(items)[1], Head(items)[2]))

extract_glossary_terms(t) ==
    LET entries == FindEntries(t, 0)
    IN  DictOf([k \in DOMAIN entries |->
                  <<Strip(entries[k].term), Strip(entries[k].name)>>], << >>)

(***************************************************************************)
(* r'\\newglossaryentry\{(.*?)\}\s*\{.*?\}(?=\s*\\newglossaryentry|$)'      *)
(* with re.DOTALL and without re.MULTILINE.                                 *)
(***************************************************************************)
AtDollar(t, j) == j = Len(t) \/ (j = Len(t) - 1 /\ At(t, j) = "\n")
DefLookahead(t, j) ==
    StartsAt(t, SkipWs(t, j), NewGlossaryEntry) \/ AtDollar(t, j)
DefEnds(t, q) ==
    {j \in (q + 1)..(Len(t) - 1) : At(t, j) = "}" /\ DefLookahead(t, j + 1)}
DefKeyEnds(t, p) ==
    {k \in (p + Len(NewGlossaryEntryOpen))..(Len(t) - 1) :
        /\ At(t, k) = "}"
        /\ SkipWs(t, k + 1) < Len(t)
        /\ At(t, SkipWs(t, k + 1)) = "{"
        /\ DefEnds(t, SkipWs(t, k + 1)) # {}}
DefMatches(t, p) ==
    StartsAt(t, p, NewGlossaryEntryOpen) /\ DefKeyEnds(t, p) # {}
DefMatch(t, p) ==
    LET k == Min(DefKeyEnds(t, p))
        j == Min(DefEnds(t, SkipWs(t, k + 1)))
    IN  [start |-> p, end |-> j + 1,
         key |-> Slice(t, p + Len(NewGlossaryEntryOpen), k)]
RECURSIVE FindDefs(_, _)
FindDefs(t, pos) ==
    LET starts == {p \in pos..(Len(t) - 1) : DefMatches(t, p)}
    IN  IF starts = {} THEN << >>
        ELSE <<DefMatch(t, Min(starts))>>
                 \o FindDefs(t, DefMatch(t, Min(starts)).end)
GlossaryDefs(t) ==
    LET ms == FindDefs(t, 0)
    IN  DictOf([k \in DOMAIN ms |->
                  <<ms[k].key, <<ms[k].start, ms[k].end>> >>], << >>)

(***************************************************************************)
(* r'\\gls\{.*?\}' : '.' does not match a newline.                          *)
(***************************************************************************)
GlsCloses(t, p) ==
    {j \in (p + Len(GlsOpen))..(Len(t) - 1) : At(t, j) = "}"}
GlsMatches(t, p) ==
    /\ StartsAt(t, p, GlsOpen)
    /\ GlsCloses(t, p) # {}
    /\ \A k \in (p + Len(GlsOpen))..(Min(GlsCloses(t, p)) - 1) :
          At(t, k) # "\n"
RECURSIVE FindGls(_, _)
FindGls(t, pos) ==
    LET starts == {p \in pos..(Len(t) - 1) : GlsMatches(t, p)}
    IN  IF starts = {} THEN << >>
        ELSE <<<<Min(starts), Min(GlsCloses(t, Min(starts))) + 1>>>>
                 \o FindGls(t, Min(GlsCloses(t, Min(starts))) + 1)
GlsSpans(t) == FindGls(t, 0)

(***************************************************************************)
(* re.compile(rf'\b{re.escape(name)}\b', re.IGNORECASE)                     *)
(***************************************************************************)
RECURSIVE re_escape(_)
re_escape(name) ==
    IF name = << >> THEN << >>
    ELSE (IF Head(name) \in SpecialChars THEN <<"\\", Head(name)>>
          ELSE <<Head(name)>>) \o re_escape(Tail(name))
\* the literal an escaped pattern stands for: '\c' matches the character c
RECURSIVE Literal(_)
Literal(pattern) ==
    IF pattern = << >> THEN << >>
    ELSE IF Head(pattern) = "\\" /\ Len(pattern) >= 2
         THEN <<pattern[2]>> \o Literal(Tail(Tail(pattern)))
         ELSE <<Head(pattern)>> \o Literal(Tail(pattern))
IsWordAt(t, i) == i >= 0 /\ i < Len(t) /\ At(t, i) \in WordChars
WordBoundary(t, i) == IsWordAt(t, i - 1) # IsWordAt(t, i)
NameMatches(t, name, i) ==
    LET lit == Literal(re_escape(name))
    IN  /\ i + Len(lit) <= Len(t)
        /\ WordBoundary(t, i)
        /\ \A k \in 1..Len(lit) : FoldCase(At(t, i + k - 1)) = FoldCase(lit[k])
        /\ WordBoundary(t, i + Len(lit))
\* the elements of a set of offsets in ascending order
Ascending(S) ==
    [i \in 1..Cardinality(S) |->
        CHOOSE x \in S : Cardinality({y \in S : y < x}) = i - 1]
\* finditer: the next match is the leftmost one at or after the end of the
\* previous match; an empty pattern matches once at every word boundary
RECURSIVE FindNonEmpty(_, _, _)
FindNonEmpty(t, name, pos) ==
    LET starts == {p \in pos..Len(t) : NameMatches(t, name, p)}
    IN  IF starts = {} THEN << >>
        ELSE <<<<Min(starts), Min(starts) + Len(name)>>>>
                 \o FindNonEmpty(t, name, Min(starts) + Len(name))
FindName(t, name, pos) ==
    IF name = << >>
    THEN LET at == Ascending({p \in pos..Len(t) : NameMatches(t, name, p)})
         IN  [i \in DOMAIN at |-> <<at[i], at[i]>>]
    ELSE FindNonEmpty(t, name, pos)

(***************************************************************************)
(* Step 3 of replace_terms_with_gls: the candidates of one glossary item,   *)
(* then of all items in the dict's iteration order.                         *)
(***************************************************************************)
InOwnDef(defs, term, start) ==
    /\ DictHas(defs, term)
    /\ DictGet(defs, term)[1] <= start
    /\ start < DictGet(defs, term)[2]
ReplacementText(term) == GlsOpen \o term \o <<"}">>
\* variant: the check against existing \gls{...} spans is left out
KeepMatchesNoGls(ms, term, name, defs, spans) ==
    LET kept == SelectSeq(ms, LAMBDA m : ~InOwnDef(defs, term, m[1]))
    IN  [k \in DOMAIN kept |->
            [start |-> kept[k][1], end |-> kept[k][2],
             repl |-> ReplacementText(term), name |-> name]]
KeepMatches(ms, term, name, defs, spans) ==
    LET kept == SelectSeq(ms, LAMBDA m : /\ ~inside_any(m[1], spans)
                                         /\ ~InOwnDef(defs, term, m[1]))
    IN  [k \in DOMAIN kept |->
            [start |-> kept[k][1], end |-> kept[k][2],
             repl |-> ReplacementText(term), name |-> name]]
Candidates(t, g, defs, spans) ==
    Concat([k \in DOMAIN g |->
               KeepMatches(FindName(t, g[k][2], 0), g[k][1], g[k][2],
                           defs, spans)])

(***************************************************************************)
(* list.sort(key=..., reverse=...) is stable in both directions.            *)
(***************************************************************************)
\* variant: an unstable sort, equal starts come out in reverse order
SortByStartDescUnstable(rs) ==
    LET n == Len(rs)
        rank == [i \in 1..n |->
                    1 + Cardinality({j \in 1..n :
                            \/ rs[j].start > rs[i].start
                            \/ rs[j].start = rs[i].start /\ j > i})]
    IN  [k \in 1..n |-> rs[CHOOSE i \in 1..n : rank[i] = k]]
\* variant: ascending order, the replacements are applied left to right
SortByStartAsc(rs) ==
    LET n == Len(rs)
        rank == [i \in 1..n |->
                    1 + Cardinality({j \in 1..n :
                            \/ rs[j].start < rs[i].start
                            \/ rs[j].start = rs[i].start /\ j < i})]
    IN  [k \in 1..n |-> rs[CHOOSE i \in 1..n : rank[i] = k]]
\* an element's place is the number of elements the sort puts before it:
\* those with a larger start and, the sort being stable, the earlier ones
\* with the same start
SortByStartDesc(rs) ==
    LET n == Len(rs)
        rank == [i \in 1..n |->
                    1 + Cardinality({j \in 1..n :
                            \/ rs[j].start > rs[i].start
                            \/ rs[j].start = rs[i].start /\ j < i})]
    IN  [k \in 1..n |-> rs[CHOOSE i \in 1..n : rank[i] = k]]
\* variant: the change list is returned in application order
SortChangesOmitted(cs) == cs
SortChanges(cs) ==
    LET n == Len(cs)
        rank == [i \in 1..n |->
                    1 + Cardinality({j \in 1..n :
                            \/ cs[j][2] < cs[i][2]
                            \/ cs[j][2] = cs[i][2] /\ j < i})]
    IN  [k \in 1..n |-> cs[CHOOSE i \in 1..n : rank[i] = k]]

\* variant: all(...) in place of any(...), skip only a fully claimed range
OverlapsAll(r, occ) == \A i \in r.start..(r.end - 1) : i \in occ
Overlaps(r, occ) == \E i \in r.start..(r.end - 1) : i \in occ
Splice(text, r) ==
    Slice(text, 0, r.start) \o r.repl \o Slice(text, r.end, Len(text))

(***************************************************************************)
(* The inputs explored: texts assembled from up to MaxPieces fragments,     *)
(* rewritten with the mapping main() extracts from them or with a given     *)
(* mapping, and the two scenario inputs of the specification.               *)
(***************************************************************************)
DefA ==
    <<"\\","n","e","w","g","l","o","s","s","a","r","y","e","n","t","r","y",
      "{","a","}","{","n","a","m","e","=","{","x","}","}">>
DefB ==
    <<"\\","n","e","w","g","l","o","s","s","a","r","y","e","n","t","r","y",
      "{","b","}","{","n","a","m","e","=","{","y","}",","," ","d","=","{",
      "x","}","}">>
WordX ==
    <<" ","X">>
WordY ==
    <<" ","y">>
GlsA ==
    <<"\\","g","l","s","{","a","}">>
Newline ==
    <<"\n">>
Cpp ==
    <<"C","+","+">>
Pieces == <<DefA, DefB, WordX, WordY, GlsA, Newline, Cpp>>
Flatten(ps) == Concat([k \in DOMAIN ps |-> Pieces[ps[k]]])
Texts ==
    {Flatten(ps) : ps \in UNION {[1..n -> DOMAIN Pieces] : n \in 0..MaxPieces}}

MapCpp == << << <<"c","p","p">>, <<"C","+","+">> >> >>
MapVector ==
    << << <<"v">>, <<"x">> >>, << <<"v","s">>, <<"x"," ","y">> >>,
       << <<"w">>, <<"y">> >> >>
MapVectorRev ==
    << << <<"v","s">>, <<"x"," ","y">> >>, << <<"v">>, <<"x">> >> >>
MapBackslash ==
    << << <<"k">>, <<"x","\\">> >>, << <<"a">>, <<"a">> >> >>
MapEmpty ==
    << << <<"e">>, << >> >>, << <<"a">>, <<"x">> >> >>
Mappings == {MapCpp, MapVector, MapVectorRev, MapBackslash, MapEmpty}

CppScenarioText ==
    <<"\\","n","e","w","g","l","o","s","s","a","r","y","e","n","t","r","y",
      "{","c","p","p","}","{","n","a","m","e","=","{","C","+","+","}",",",
      " ","d","e","s","c","r","i","p","t","i","o","n","=","{",".",".",".",
      "}","}"," ","C","+","+"," ","i","s"," ","f","a","s","t","."," ","\\",
      "g","l","s","{","c","p","p","}"," ","a","l","r","e","a","d","y"," ",
      "m","a","r","k","e","d","."," ","T","h","e"," ","t","e","r","m"," ",
      "c","p","p"," ","i","t","s","e","l","f"," ","u","n","m","a","r","k",
      "e","d",".">>
VectorSpaceText ==
    <<"v","e","c","t","o","r"," ","s","p","a","c","e">>
MapVectorSpace ==
    << << <<"v">>, <<"v","e","c","t","o","r">> >>,
       << <<"v","s">>, VectorSpaceText >> >>
MapVectorSpaceRev ==
    << << <<"v","s">>, VectorSpaceText >>,
       << <<"v">>, <<"v","e","c","t","o","r">> >> >>
Scenarios ==
    {[text |-> CppScenarioText, glossary |-> MapCpp],
     [text |-> VectorSpaceText, glossary |-> MapVectorSpace],
     [text |-> VectorSpaceText, glossary |-> MapVectorSpaceRev]}

(***************************************************************************)
(* The program.                                                             *)
(***************************************************************************)
Init ==
    /\ \/ tex_text \in Texts /\ glossary = << >> /\ pc = "main"
       \/ tex_text \in Texts /\ glossary \in Mappings /\ pc = "call"
       \/ \E s \in Scenarios :
             tex_text = s.text /\ glossary = s.glossary /\ pc = "call"
    /\ run = 1
    /\ glossary_defs = << >>
    /\ gls_spans = << >>
    /\ replacements = << >>
    /\ idx = 0
    /\ updated_text = << >>
    /\ occupied = {}
    /\ changes = << >>
    /\ applied = << >>
    /\ history = << >>

\* main(): glossary = extract_glossary_terms(tex_text)
Main ==
    /\ pc = "main"
    /\ glossary' = extract_glossary_terms(tex_text)
    /\ pc' = "call"
    /\ UNCHANGED <<tex_text, run, glossary_defs, gls_spans, replacements, idx,
                   updated_text, occupied, changes, applied, history>>

\* steps 1-3: exclusion spans and candidates, all from the original text
Scan ==
    /\ pc = "call"
    /\ updated_text' = tex_text
    /\ changes' = << >>
    /\ glossary_defs' = GlossaryDefs(tex_text)
    /\ gls_spans' = GlsSpans(tex_text)
    /\ replacements' =
          Candidates(tex_text, glossary, GlossaryDefs(tex_text),
                     GlsSpans(tex_text))
    /\ pc' = "sort"
    /\ UNCHANGED <<tex_text, glossary, run, idx, occupied, applied, history>>

\* step 4: replacements.sort(key=start, reverse=True); occupied = set()
Sort ==
    /\ pc = "sort"
    /\ replacements' = SortByStartDesc(replacements)
    /\ occupied' = {}
    /\ idx' = 1
    /\ applied' = << >>
    /\ pc' = "loop"
    /\ UNCHANGED <<tex_text, glossary, run, glossary_defs, gls_spans,
                   updated_text, changes, history>>

\* one iteration that finds a claimed position and continues
Skip ==
    /\ pc = "loop"
    /\ idx <= Len(replacements)
    /\ Overlaps(replacements[idx], occupied)
    /\ idx' = idx + 1
    /\ UNCHANGED <<tex_text, glossary, pc, run, glossary_defs, gls_spans,
                   replacements, updated_text, occupied, changes, applied,
                   history>>

\* one iteration that splices the replacement into updated_text
Apply ==
    /\ pc = "loop"
    /\ idx <= Len(replacements)
    /\ ~Overlaps(replacements[idx], occupied)
    /\ updated_text' = Splice(updated_text, replacements[idx])
    /\ occupied' = occupied \cup
                      (replacements[idx].start..(replacements[idx].end - 1))
    /\ changes' = Append(changes, <<replacements[idx].name,
                                    replacements[idx].start>>)
    /\ applied' = Append(applied, replacements[idx])
    /\ idx' = idx + 1
    /\ UNCHANGED <<tex_text, glossary, pc, run, glossary_defs, gls_spans,
                   replacements, history>>

\* changes.sort(key=offset); return updated_text, changes
Return ==
    /\ pc = "loop"
    /\ idx > Len(replacements)
    /\ changes' = SortChanges(changes)
    /\ pc' = "done"
    /\ history' = Append(history, [input |-> tex_text,
                                    output |-> updated_text,
                                    changes |-> SortChanges(changes)])
    /\ UNCHANGED <<tex_text, glossary, run, glossary_defs, gls_spans,
                   replacements, idx, updated_text, occupied, applied>>

\* the rewriter called again on its own output with the same mapping
Rerun ==
    /\ pc = "done"
    /\ run < MaxRuns
    /\ Len(updated_text) <= MaxRerunLen
    /\ tex_text' = updated_text
    /\ run' = run + 1
    /\ pc' = "call"
    /\ glossary_defs' = << >>
    /\ gls_spans' = << >>
    /\ replacements' = << >>
    /\ idx' = 0
    /\ updated_text' = << >>
    /\ occupied' = {}
    /\ changes' = << >>
    /\ applied' = << >>
    /\ UNCHANGED <<glossary, history>>

Next == Main \/ Scan \/ Sort \/ Skip \/ Apply \/ Return \/ Rerun

Spec == Init /\ [][Next]_vars

(***************************************************************************)
(* Vocabulary of the properties.                                            *)
(***************************************************************************)
RangeOf(r) == r.start..(r.end - 1)
AppliedPositions == UNION {RangeOf(applied[k]) : k \in DOMAIN applied}
IsApplied(r) == \E k \in DOMAIN applied : applied[k] = r
\* the sum of the lengths of the ranges, counted as tagged positions
TotalLength(rs) ==
    Cardinality(UNION {{<<k, i>> : i \in RangeOf(rs[k])} : k \in DOMAIN rs})
Count(x, seq) == Cardinality({k \in DOMAIN seq : seq[k] = x})
ChangeOf(r) == <<r.name, r.start>>
KeyIndex(r) ==
    CHOOSE k \in DOMAIN glossary : ReplacementText(glossary[k][1]) = r.repl
\* the whole-word occurrences of the display name of the k-th glossary item
Occurrences(k) ==
    LET ms == FindName(tex_text, glossary[k][2], 0)
    IN  {ms[i] : i \in DOMAIN ms}

(***************************************************************************)
(* C4  No double-covering: the ranges of the applied replacements are       *)
(* pairwise disjoint, occupied is exactly their union, and no position is   *)
(* added to occupied twice (its size is the sum of the ranges' lengths).    *)
(***************************************************************************)
NoDoubleCovering ==
    /\ \A i, j \in DOMAIN applied :
          i < j => RangeOf(applied[i]) \cap RangeOf(applied[j]) = {}
    /\ occupied = AppliedPositions
    /\ Cardinality(occupied) = TotalLength(applied)
NoDoubleCoveringWitness ==
    /\ pc = "done"
    /\ Len(applied) >= 2
    /\ \E k \in DOMAIN replacements :
          /\ ~IsApplied(replacements[k])
          /\ RangeOf(replacements[k]) \cap occupied # {}

(***************************************************************************)
(* C9  The change list: while the loop runs it holds one (name, start)      *)
(* record per applied replacement; the returned list holds exactly those    *)
(* records, none for a skipped replacement, in ascending order of start.    *)
(***************************************************************************)
ChangeListOrdered ==
    /\ pc = "loop" =>
          changes = [k \in DOMAIN applied |-> ChangeOf(applied[k])]
    /\ pc = "done" =>
          /\ Len(changes) = Len(applied)
          /\ \A k \in DOMAIN applied :
                Count(ChangeOf(applied[k]), changes)
                    = Cardinality({i \in DOMAIN applied :
                                      ChangeOf(applied[i]) = ChangeOf(applied[k])})
          /\ \A i, j \in DOMAIN changes : i < j => changes[i][2] <= changes[j][2]
ChangeListOrderedWitness ==
    /\ pc = "done"
    /\ Len(changes) >= 2
    /\ changes[1][2] < changes[Len(changes)][2]
    /\ Len(applied) < Len(replacements)

(***************************************************************************)
(* C8  Deterministic overlap resolution: the loop processes the pending     *)
(* replacements by descending start and, at equal start, in the order of    *)
(* their keys in the mapping; a replacement is applied exactly when none    *)
(* of its positions lies in an earlier applied one; of two replacements     *)
(* that start together at most one is applied, in the vector / vector       *)
(* space scenario the one of the first key; equal inputs give equal         *)
(* results.                                                                 *)
(***************************************************************************)
ProcessingOrder ==
    pc \in {"loop", "done"} =>
        \A i, j \in DOMAIN replacements :
            i < j =>
                \/ replacements[i].start > replacements[j].start
                \/ /\ replacements[i].start = replacements[j].start
                   /\ KeyIndex(replacements[i]) < KeyIndex(replacements[j])
AppliedIffUnclaimed ==
    (pc = "loop" /\ idx <= Len(replacements)) =>
        IF RangeOf(replacements[idx]) \cap AppliedPositions = {}
        THEN applied' = Append(applied, replacements[idx])
        ELSE applied' = applied
TiesKeepOne ==
    pc = "done" =>
        /\ \A i, j \in DOMAIN replacements :
              (/\ i < j
               /\ replacements[i].start = replacements[j].start
               /\ RangeOf(replacements[i]) # {}
               /\ RangeOf(replacements[j]) # {})
              => ~(IsApplied(replacements[i]) /\ IsApplied(replacements[j]))
        /\ (tex_text = VectorSpaceText /\ run = 1) =>
              /\ Len(applied) = 1
              /\ applied[1].repl = ReplacementText(glossary[1][1])
SameInputSameResult ==
    \A i, j \in DOMAIN history :
        history[i].input = history[j].input => history[i] = history[j]
DeterministicOverlapResolution ==
    [][/\ AppliedIffUnclaimed
       /\ ProcessingOrder'
       /\ TiesKeepOne'
       /\ SameInputSameResult']_vars
DeterministicOverlapResolutionWitness ==
    /\ pc = "done"
    /\ \E i, j \in DOMAIN replacements :
          /\ i < j
          /\ replacements[i].start = replacements[j].start
          /\ IsApplied(replacements[i])
          /\ ~IsApplied(replacements[j])

(***************************************************************************)
(* C5  Existing-reference protection.  As claimed: no applied replacement   *)
(* starts inside a \gls{...} span of the original text, and a span that     *)
(* wholly contains an occurrence of a display name keeps all its            *)
(* characters, that is, no applied range meets it.                          *)
(***************************************************************************)
StartsInsideGls(r) ==
    \E j \in DOMAIN gls_spans :
        gls_spans[j][1] <= r.start /\ r.start < gls_spans[j][2]
HoldsOccurrence(span) ==
    \E k \in DOMAIN glossary : \E m \in Occurrences(k) :
        span[1] <= m[1] /\ m[2] <= span[2]
IdempotentRerun ==
    (/\ pc = "done"
     /\ run >= 2
     /\ glossary = extract_glossary_terms(history[1].input))
    => (changes = << >> /\ updated_text = tex_text)

(***************************************************************************)
(* C2  Self-exclusion: with the mapping that extract_glossary_terms gives   *)
(* for the text, no replacement by \gls{K} is applied at an offset inside   *)
(* a definition of K, from its \newglossaryentry through the closing brace  *)
(* of its name field.                                                       *)
(***************************************************************************)
OwnEntries(r) ==
    LET entries == FindEntries(tex_text, 0)
    IN  {entries[k] : k \in {i \in DOMAIN entries :
                                ReplacementText(Strip(entries[i].term)) = r.repl}}
SelfExclusion ==
    (pc = "done" /\ glossary = extract_glossary_terms(tex_text)) =>
        \A k \in DOMAIN applied : \A e \in OwnEntries(applied[k]) :
            ~(e.start <= applied[k].start /\ applied[k].start < e.end)

(***************************************************************************)
(* C3  Eligibility inside other definitions.  A definition block runs from  *)
(* \newglossaryentry to the brace that closes its second group.  As         *)
(* claimed: no located span runs past the start of a later definition,      *)
(* and an occurrence of the display name of entry K inside the block of     *)
(* another entry, or in body text after a block of K, that is outside       *)
(* every \gls{...} span and meets no other candidate is replaced.           *)
(***************************************************************************)
\* the offset after the brace that balances the one at q
ClosingBrace(t, q) ==
    LET Depth(j) == Cardinality({i \in q..j : At(t, i) = "{"})
                        - Cardinality({i \in q..j : At(t, i) = "}"})
        closed == {j \in q..(Len(t) - 1) : Depth(j) = 0}
    IN  IF closed = {} THEN Len(t) ELSE Min(closed) + 1
Blocks ==
    LET entries == FindEntries(tex_text, 0)
    IN  {[key |-> Strip(entries[k].term),
          start |-> entries[k].start,
          end |-> ClosingBrace(tex_text,
                               SkipWs(tex_text,
                                      entries[k].start
                                        + Len(NewGlossaryEntryOpen)
                                        + Len(entries[k].term) + 1))] :
            k \in DOMAIN entries}
InBlock(b, i) == b.start <= i /\ i < b.end
MeetsOtherCandidate(k, m) ==
    \E k2 \in DOMAIN glossary : \E m2 \in Occurrences(k2) :
        /\ k2 # k
        /\ (m[1]..(m[2] - 1)) \cap (m2[1]..(m2[2] - 1)) # {}
SpansStopAtNextDefinition ==
    \A d \in DOMAIN glossary_defs :
        \A i \in (glossary_defs[d][2][1] + 1)..(glossary_defs[d][2][2] - 1) :
            ~EntryMatches(tex_text, i)
EligibleInOtherDefinitions ==
    (pc = "done" /\ glossary = extract_glossary_terms(tex_text)) =>
        /\ SpansStopAtNextDefinition
        /\ \A k \in DOMAIN glossary : \A m \in Occurrences(k) :
              (/\ m[1] < m[2]
               /\ \E b \in Blocks : b.key = glossary[k][1]
               /\ \E b \in Blocks : b.key # glossary[k][1]
               /\ \/ \E b \in Blocks : b.key # glossary[k][1] /\ InBlock(b, m[1])
                  \/ /\ \E b \in Blocks : b.key = glossary[k][1] /\ b.end <= m[1]
                     /\ \A b \in Blocks : ~InBlock(b, m[1])
               /\ ~inside_any(m[1], gls_spans)
               /\ ~MeetsOtherCandidate(k, m))
              => IsApplied([start |-> m[1], end |-> m[2],
                            repl |-> ReplacementText(glossary[k][1]),
                            name |-> glossary[k][2]])

(***************************************************************************)
(* C6  Word-boundary matching: an applied replacement of a non-empty        *)
(* display name has no word character right before its start or right       *)
(* after its end in the original text.                                      *)
(***************************************************************************)
WordBoundaryMatching ==
    \A k \in DOMAIN applied :
        applied[k].start < applied[k].end =>
            /\ ~IsWordAt(tex_text, applied[k].start - 1)
            /\ ~IsWordAt(tex_text, applied[k].end)

(***************************************************************************)
(* C7  The C++ scenario: exactly one change; "C++ is fast." becomes         *)
(* "\gls{cpp} is fast."; the existing \gls{cpp} and the C++ of name={C++}   *)
(* stay as they are.                                                        *)
(***************************************************************************)
CppScenarioOutput ==
    <<"\\","n","e","w","g","l","o","s","s","a","r","y","e","n","t","r","y",
      "{","c","p","p","}","{","n","a","m","e","=","{","C","+","+","}",",",
      " ","d","e","s","c","r","i","p","t","i","o","n","=","{",".",".",".",
      "}","}"," ","\\","g","l","s","{","c","p","p","}"," ","i","s"," ","f",
      "a","s","t","."," ","\\","g","l","s","{","c","p","p","}"," ","a","l",
      "r","e","a","d","y"," ","m","a","r","k","e","d","."," ","T","h","e",
      " ","t","e","r","m"," ","c","p","p"," ","i","t","s","e","l","f"," ",
      "u","n","m","a","r","k","e","d",".">>
CppScenario ==
    (pc = "done" /\ run = 1 /\ tex_text = CppScenarioText /\ glossary = MapCpp)
        => (Len(changes) = 1 /\ updated_text = CppScenarioOutput)

(***************************************************************************)
(* C10  Offsets stay valid under right-to-left splicing: when a             *)
(* replacement is applied the working text still starts with the original   *)
(* text up to the replacement's start, and the returned text is the         *)
(* original text with every applied range, taken from left to right,        *)
(* replaced by its replacement text and everything else kept.               *)
(***************************************************************************)
Reverse(seq) == [i \in 1..Len(seq) |-> seq[Len(seq) + 1 - i]]
\* rs in ascending order: the original text up to each replacement, then
\* its replacement text, and the rest of the original after the last one
Emit(orig, rs) ==
    Concat([k \in 1..(Len(rs) + 1) |->
               IF k <= Len(rs)
               THEN Slice(orig, IF k = 1 THEN 0 ELSE rs[k - 1].end, rs[k].start)
                        \o rs[k].repl
               ELSE Slice(orig, IF k = 1 THEN 0 ELSE rs[k - 1].end, Len(orig))])
PrefixUntouched ==
    (pc = "loop" /\ idx <= Len(replacements)) =>
        Slice(updated_text, 0, replacements[idx].start)
            = Slice(tex_text, 0, replacements[idx].start)
====
